---- MODULE Spec2Model ----
(***************************************************************************)
(* Model of the CMake build orchestrator of pyflagser's setup.py:          *)
(* CMakeBuild.run, CMakeBuild.install_dependencies and                     *)
(* CMakeBuild.build_extension.  Every subprocess call blocks until the     *)
(* child exits, so each call is one step whose outcome (exit status, or    *)
(* OSError when the program cannot be started) is chosen by the            *)
(* environment.  The filesystem outlives a run of the command; the         *)
(* process environment and the locals do not.                              *)
(***************************************************************************)
EXTENDS Integers, Sequences, FiniteSets, TLC

\* ------------------------------------------------------------------ bounds
MaxTargets == 2      \* most extensions handed to one run of the command
MaxRuns == 2         \* runs of the command over the same working tree
MaxVerLen == 3       \* most components of a reported cmake version

\* ------------------------------------------------------- program constants
MinWindowsVersion == <<3, 1, 0>>
VersionInfoDefine == "-DVERSION_INFO=\"__version__\""

\* ------------------------------------------------------------ input domains
VersionComponents == {0, 1, 3, 4}
SeqsUpTo(S, n) == UNION {[1..k -> S] : k \in 1..n}
\* what r'version\s*([\d.]+)' captures from the tool's output, read as the
\* dotted numbers it spells; matched is FALSE when the pattern is not found
VersionOutputs ==
    {[matched |-> TRUE, release |-> r] : r \in SeqsUpTo(VersionComponents, MaxVerLen)}
        \cup {[matched |-> FALSE, release |-> <<>>]}
NoOutput == [matched |-> FALSE, release |-> <<>>]
\* values of a flags variable, as its whitespace-separated words
CxxFlagsValues == {<<>>, <<"-O2">>}
ArchFlagsValues == {<<>>, <<"-arch", "x86_64">>,
                    <<"-arch", "x86_64", "-arch", "arm64">>}
\* a host: its platform, its pointer width and its ARCHFLAGS.  The pointer
\* width is read on Windows only and ARCHFLAGS on macOS only, so they vary
\* on those platforms only.
Hosts ==
    {[platform |-> "Windows", is64 |-> b, arch |-> {}] : b \in BOOLEAN}
        \cup {[platform |-> "Linux", is64 |-> TRUE, arch |-> {}]}
        \cup {[platform |-> "Darwin", is64 |-> TRUE, arch |-> a] :
                 a \in {{}} \cup {{v} : v \in ArchFlagsValues}}
DirStates == {"absent", "empty", "partial", "populated"}

\* ext.name of the i-th extension, as its dotted components
ModNames == <<"pyflagser", "flagser_count", "flagser_coeff", "flagser_extra">>
ExtName(i) == IF i = 1 THEN <<ModNames[i]>> ELSE <<"pyflagser", ModNames[i]>>
\* CMakeExtension(name, sourcedir): sourcedir is made absolute
CMakeExtension(i) == [name |-> ExtName(i), sourcedir |-> <<"repo", "src">>]

VARIABLES
    host,         \* platform.system(), sys.maxsize and sys.platform of the host
    debug,        \* self.debug
    extensions,   \* self.extensions
    environ,      \* os.environ of the orchestrator process
    fs,           \* the filesystem: the pybind11 directory and self.build_temp
    run,          \* number of the current run of the command
    pc,           \* position of the current run
    idx,          \* index in self.extensions of the extension being built
    out,          \* output of the version query
    env,          \* the local env of build_extension
    failure,      \* the exception that ended the run, or "none"
    log,          \* the subprocess calls of the current run, in order
    fetchCount    \* git clone invocations over all runs

vars == <<host, debug, extensions, environ, fs, run, pc, idx, out, env,
          failure, log, fetchCount>>

config == <<host, debug, extensions>>

\* ------------------------------------------------------------------ helpers
EmptyEnv == [k \in {} |-> <<>>]
\* dict.get(key, default)
Get(e, k, default) == IF k \in DOMAIN e THEN e[k] ELSE default
\* d[key] = value on a dict
SetItem(e, k, v) == [x \in DOMAIN e \cup {k} |-> IF x = k THEN v ELSE e[x]]


\* ----------------------------------------------- version.parse and Version.<
\* packaging's comparison key of a release: trailing zeros are dropped
RECURSIVE StripTrailingZeros(_)
StripTrailingZeros(r) ==
    IF r = <<>> THEN <<>>
    ELSE IF r[Len(r)] = 0 THEN StripTrailingZeros(SubSeq(r, 1, Len(r) - 1))
    ELSE r

\* Python's tuple order: the first differing item decides, a proper prefix
\* is smaller
RECURSIVE TupleLess(_, _)
TupleLess(a, b) ==
    IF b = <<>> THEN FALSE
    ELSE IF a = <<>> THEN TRUE
    ELSE IF a[1] # b[1] THEN a[1] < b[1]
    ELSE TupleLess(Tail(a), Tail(b))

\* faulty variant: the releases are compared as written, trailing zeros kept
VersionLessRaw(a, b) == TupleLess(a, b)

\* version.parse(a) < version.parse(b)
VersionLess(a, b) == TupleLess(StripTrailingZeros(a), StripTrailingZeros(b))

\* -------------------------------------------------------------- subprocess
\* one entry of the log: the call made, the extension it was made for (0 for
\* none), how it ended, its working directory, the environment the child
\* received and the arguments after the program's name and subcommand, each
\* argument as the pieces it is concatenated from
Call(op, ext, status, cwd, e, args) ==
    [op |-> op, ext |-> ext, status |-> status, cwd |-> cwd, env |-> e,
     args |-> args]

\* subprocess.check_call / check_output: returns on exit status 0, raises
\* CalledProcessError on another status and OSError when the program cannot
\* be started
Statuses == {"ok", "nonzero", "oserror"}

\* where a run that raised stops
Raise(kind) == [pc |-> "failed", failure |-> kind]
Goto(label) == [pc |-> label, failure |-> "none"]

\* the head of the loop over self.extensions
LoopHead(i) == IF i <= Len(extensions) THEN Goto("ext") ELSE Goto("done")


\* ------------------------------------------------------- build_extension
\* self.get_ext_fullpath(ext.name): build_lib, the package directories of
\* the dotted name, then the file name of the module
get_ext_fullpath(name) ==
    <<"build_lib">> \o SubSeq(name, 1, Len(name) - 1) \o <<name[Len(name)], ".so">>

\* os.path.dirname of a path that ends with a file name and its suffix
dirname(path) == SubSeq(path, 1, Len(path) - 2)

\* faulty variant: the path of the module file is not reduced to its directory
extdirOfFile(ext) == get_ext_fullpath(ext.name) \o <<"pyflagser", "modules">>

extdir(ext) == dirname(get_ext_fullpath(ext.name)) \o <<"pyflagser", "modules">>

\* faulty variant: the two modes are exchanged
cfgExchanged(dbg) == IF dbg THEN "Release" ELSE "Debug"

cfg(dbg) == IF dbg THEN "Debug" ELSE "Release"

\* faulty variant: the mode name is used as it is
upperOmitted(c) == c

\* str.upper on the two values of cfg
upper(c) == IF c = "Debug" THEN "DEBUG" ELSE "RELEASE"

\* re.findall(r"-arch (\S+)", s) on the words of s
RECURSIVE findall_arch(_)
findall_arch(words) ==
    IF Len(words) < 2 THEN <<>>
    ELSE IF words[1] = "-arch"
         THEN <<words[2]>> \o findall_arch(SubSeq(words, 3, Len(words)))
         ELSE findall_arch(Tail(words))

\* ";".join(archs)
RECURSIVE join_semicolon(_)
join_semicolon(archs) ==
    IF archs = <<>> THEN <<>>
    ELSE IF Len(archs) = 1 THEN archs
    ELSE <<archs[1], ";">> \o join_semicolon(Tail(archs))

\* faulty variant: the interpreter directive comes first
base_argsSwapped(ext) ==
    << <<"-DPYTHON_EXECUTABLE=", "sys.executable">>,
       <<"-DCMAKE_LIBRARY_OUTPUT_DIRECTORY=">> \o extdir(ext) >>

\* the two directives every configure call is given
base_args(ext) ==
    << <<"-DCMAKE_LIBRARY_OUTPUT_DIRECTORY=">> \o extdir(ext),
       <<"-DPYTHON_EXECUTABLE=", "sys.executable">> >>

\* the branch on platform.system()
platform_args(h, dbg, ext) ==
    IF h.platform = "Windows"
    THEN << <<"-DCMAKE_LIBRARY_OUTPUT_DIRECTORY_", upper(cfg(dbg)), "=">>
               \o extdir(ext) >>
         \o (IF h.is64 THEN << <<"-A">>, <<"x64">> >> ELSE <<>>)
    ELSE << <<"-DCMAKE_BUILD_TYPE=", cfg(dbg)>> >>

\* faulty variant: ARCHFLAGS is respected on every platform
arch_argsAnyPlatform(h, e) ==
    LET archs == findall_arch(Get(e, "ARCHFLAGS", <<>>))
    IN  IF archs # <<>>
        THEN << <<"-DCMAKE_OSX_ARCHITECTURES=">> \o join_semicolon(archs) >>
        ELSE <<>>

\* the branch on sys.platform.startswith("darwin")
arch_args(h, e) ==
    LET archs == findall_arch(Get(e, "ARCHFLAGS", <<>>))
    IN  IF h.platform = "Darwin" /\ archs # <<>>
        THEN << <<"-DCMAKE_OSX_ARCHITECTURES=">> \o join_semicolon(archs) >>
        ELSE <<>>

cmake_args(h, dbg, e, ext) ==
    base_args(ext) \o platform_args(h, dbg, ext) \o arch_args(h, e)

\* faulty variant: the job-count flag is given on every platform
build_argsJobsEverywhere(h, dbg) ==
    << <<"--config">>, <<cfg(dbg)>>, <<"--">>, <<"-j2">> >>

build_args(h, dbg) ==
    << <<"--config">>, <<cfg(dbg)>>, <<"--">> >>
        \o (IF h.platform = "Windows" THEN << <<"/m">> >> ELSE << <<"-j2">> >>)

\* env = os.environ.copy(); env['CXXFLAGS'] = '{} -DVERSION_INFO=...'.format(
\* env.get('CXXFLAGS', ''), ...)
PreparedEnv(e) ==
    SetItem(e, "CXXFLAGS", Get(e, "CXXFLAGS", <<>>) \o <<VersionInfoDefine>>)

\* self.build_temp: one directory of the command, whatever the extension
build_temp(ext) == "build_temp"


\* ------------------------------------------------------------------- state
Init ==
    /\ host \in Hosts
    /\ debug \in BOOLEAN
    /\ \E n \in 0..MaxTargets : extensions = [i \in 1..n |-> CMakeExtension(i)]
    /\ \E cxx \in {{}} \cup {{v} : v \in CxxFlagsValues} :
          environ = [k \in {"CXXFLAGS" : v \in cxx} \cup {"ARCHFLAGS" : v \in host.arch}
                        |-> IF k = "CXXFLAGS" THEN CHOOSE v \in cxx : TRUE
                            ELSE CHOOSE v \in host.arch : TRUE]
    /\ fs \in [pybind11 : DirStates, build_temp : BOOLEAN]
    /\ run = 1
    /\ pc = "version"
    /\ idx = 1
    /\ out = NoOutput
    /\ env = EmptyEnv
    /\ failure = "none"
    /\ log = <<>>
    /\ fetchCount = 0

\* ---------------------------------------------------------- CMakeBuild.run
\* faulty variant: an OSError of the version query is swallowed
AfterVersionQueryLenient(status) ==
    IF status = "nonzero" THEN Raise("CalledProcessError")
    ELSE Goto("version_check")

\* how the version query ends: OSError becomes the RuntimeError that names
\* the extensions; CalledProcessError is not caught
AfterVersionQuery(status) ==
    CASE status = "oserror" -> Raise("ToolchainMissing")
      [] status = "nonzero" -> Raise("CalledProcessError")
      [] OTHER -> Goto("version_check")

\* out = subprocess.check_output(['cmake', '--version'])
VersionQuery ==
    /\ pc = "version"
    /\ \E status \in Statuses, o \in VersionOutputs :
          /\ status # "ok" => o = NoOutput
          /\ log' = Append(log, Call("version", 0, status, ".", environ,
                                     << <<"--version">> >>))
          /\ out' = o
          /\ pc' = AfterVersionQuery(status).pc
          /\ failure' = AfterVersionQuery(status).failure
    /\ UNCHANGED <<config, environ, fs, run, idx, env, fetchCount>>

\* the version test of run: made on Windows only; re.search gives None when
\* the output has no version, and None.group raises AttributeError
CheckVersion(h, o) ==
    IF h.platform = "Windows"
    THEN IF ~o.matched THEN Raise("AttributeError")
         ELSE IF VersionLess(o.release, MinWindowsVersion)
              THEN Raise("ToolchainTooOld")
              ELSE Goto("deps")
    ELSE Goto("deps")

\* out is not read after this step
VersionCheck ==
    /\ pc = "version_check"
    /\ pc' = CheckVersion(host, out).pc
    /\ failure' = CheckVersion(host, out).failure
    /\ out' = NoOutput
    /\ UNCHANGED <<config, environ, fs, run, idx, env, log, fetchCount>>

\* -------------------------------------------- CMakeBuild.install_dependencies
\* faulty variant: a directory that holds no complete clone counts as missing
DependencyPresentValidated(f) == f.pybind11 = "populated"

\* os.path.exists(dir_pybind11)
DependencyPresent(f) == f.pybind11 # "absent"

\* the directory is there: return 0, and run goes on to its loop
InstallDependenciesPresent ==
    /\ pc = "deps"
    /\ DependencyPresent(fs)
    /\ pc' = LoopHead(idx).pc
    /\ UNCHANGED <<config, environ, fs, run, idx, out, env, failure, log, fetchCount>>

\* os.mkdir(dir_pybind11): makes the directory, or raises OSError
InstallDependenciesMkdir ==
    /\ pc = "deps"
    /\ ~DependencyPresent(fs)
    /\ \E made \in BOOLEAN :
          IF made
          THEN /\ fs' = [fs EXCEPT !.pybind11 = "empty"]
               /\ pc' = "clone"
               /\ UNCHANGED failure
          ELSE /\ pc' = Raise("DependencyFetchFailed").pc
               /\ failure' = Raise("DependencyFetchFailed").failure
               /\ UNCHANGED fs
    /\ UNCHANGED <<config, environ, run, idx, out, env, log, fetchCount>>

\* faulty variant: the directory is removed when the clone fails
DirAfterCloneCleanup(status, leftover) ==
    IF status = "ok" THEN "populated" ELSE "absent"

\* what git clone leaves in the directory made for it: the repository when
\* it exits 0, nothing or a part of it otherwise; nothing is removed
DirAfterClone(status, leftover) == IF status = "ok" THEN "populated" ELSE leftover

AfterClone(status) ==
    IF status = "ok" THEN Goto("submodule") ELSE Raise("DependencyFetchFailed")

\* subprocess.check_call(['git', 'clone', url, dir_pybind11])
InstallDependenciesClone ==
    /\ pc = "clone"
    /\ \E status \in Statuses, leftover \in {"empty", "partial"} :
          /\ status = "oserror" => leftover = "empty"
          /\ log' = Append(log, Call("clone", 0, status, ".", environ,
                                     << <<"pybind11.git">>, <<"pybind11">> >>))
          /\ fs' = [fs EXCEPT !.pybind11 = DirAfterClone(status, leftover)]
          /\ pc' = AfterClone(status).pc
          /\ failure' = AfterClone(status).failure
    /\ fetchCount' = fetchCount + 1
    /\ UNCHANGED <<config, environ, run, idx, out, env>>

\* faulty variant: the exit status of the submodule call is not checked
AfterSubmoduleUnchecked(status) == LoopHead(idx)

AfterSubmodule(status) ==
    IF status = "ok" THEN LoopHead(idx) ELSE Raise("DependencyFetchFailed")

\* subprocess.check_call(['git', 'submodule', 'update', '--init',
\* '--recursive']), in the working directory of the run
InstallDependenciesSubmodule ==
    /\ pc = "submodule"
    /\ \E status \in Statuses :
          /\ log' = Append(log, Call("submodule", 0, status, ".", environ,
                                     << <<"update">>, <<"--init">>, <<"--recursive">> >>))
          /\ pc' = AfterSubmodule(status).pc
          /\ failure' = AfterSubmodule(status).failure
    /\ UNCHANGED <<config, environ, fs, run, idx, out, env, fetchCount>>


\* ------------------------------------------------ CMakeBuild.build_extension
\* faulty variant: env is os.environ itself, not a copy of it
EnvironAliased(e) == PreparedEnv(e)

\* os.environ after env has been prepared: env is a copy, so os.environ is
\* what it was
EnvironAfterPrepare(e) == e

\* faulty variant: the directory is taken to be there
NeedsMakedirsNever(f) == FALSE

\* not os.path.exists(self.build_temp)
NeedsMakedirs(f) == ~f.build_temp

\* the arguments and env are computed, and self.build_temp is made when it
\* is not there (os.makedirs makes it or raises OSError)
BuildExtensionPrepare ==
    /\ pc = "ext"
    /\ idx <= Len(extensions)
    /\ env' = PreparedEnv(environ)
    /\ environ' = EnvironAfterPrepare(environ)
    /\ IF ~NeedsMakedirs(fs)
       THEN /\ pc' = "configure"
            /\ UNCHANGED <<fs, failure>>
       ELSE \E made \in BOOLEAN :
               IF made
               THEN /\ fs' = [fs EXCEPT !.build_temp = TRUE]
                    /\ pc' = "configure"
                    /\ UNCHANGED failure
               ELSE /\ pc' = Raise("OSError").pc
                    /\ failure' = Raise("OSError").failure
                    /\ UNCHANGED fs
    /\ UNCHANGED <<config, run, idx, out, log, fetchCount>>

\* faulty variant: a failed configure call is tried again
AfterConfigureRetry(status) ==
    IF status = "ok" THEN Goto("compile") ELSE Goto("ext")

\* faulty variant: the exit status of the configure call is not checked
AfterConfigureUnchecked(status) == Goto("compile")

AfterConfigure(status) ==
    IF status = "ok" THEN Goto("compile") ELSE Raise("ConfigureFailed")

\* subprocess.check_call(['cmake', ext.sourcedir] + cmake_args,
\*                       cwd=self.build_temp, env=env)
BuildExtensionConfigure ==
    /\ pc = "configure"
    /\ \E status \in Statuses :
          /\ log' = Append(log, Call("configure", idx, status,
                                     build_temp(extensions[idx]), env,
                                     <<extensions[idx].sourcedir>>
                                        \o cmake_args(host, debug, environ,
                                                      extensions[idx])))
          /\ pc' = AfterConfigure(status).pc
          /\ failure' = AfterConfigure(status).failure
    /\ UNCHANGED <<config, environ, fs, run, idx, out, env, fetchCount>>

\* faulty variant: the compile call is given the prepared env
CompileEnvPrepared(prepared, ambient) == prepared

\* the environment of the compile call: no env is given, so the child
\* inherits os.environ
CompileEnv(prepared, ambient) == ambient

\* faulty variant: the exit status of the compile call is not checked
AfterCompileUnchecked(status, i) == LoopHead(i + 1)

AfterCompile(status, i) ==
    IF status = "ok" THEN LoopHead(i + 1) ELSE Raise("CompileFailed")

\* subprocess.check_call(['cmake', '--build', '.'] + build_args,
\*                       cwd=self.build_temp)
BuildExtensionCompile ==
    /\ pc = "compile"
    /\ \E status \in Statuses :
          /\ log' = Append(log, Call("build", idx, status,
                                     build_temp(extensions[idx]),
                                     CompileEnv(env, environ),
                                     << <<".">> >> \o build_args(host, debug)))
          /\ pc' = AfterCompile(status, idx).pc
          /\ failure' = AfterCompile(status, idx).failure
          /\ idx' = IF status = "ok" THEN idx + 1 ELSE idx
    /\ UNCHANGED <<config, environ, fs, run, out, env, fetchCount>>

\* ----------------------------------------------------------------- the runs
\* the command is run again in the same working tree: a new process with the
\* same ambient environment; the filesystem is what the last run left
NewRun ==
    /\ pc \in {"done", "failed"}
    /\ run < MaxRuns
    /\ run' = run + 1
    /\ pc' = "version"
    /\ idx' = 1
    /\ out' = NoOutput
    /\ env' = EmptyEnv
    /\ failure' = "none"
    /\ log' = <<>>
    /\ UNCHANGED <<config, environ, fs, fetchCount>>

Next ==
    \/ VersionQuery
    \/ VersionCheck
    \/ InstallDependenciesPresent
    \/ InstallDependenciesMkdir
    \/ InstallDependenciesClone
    \/ InstallDependenciesSubmodule
    \/ BuildExtensionPrepare
    \/ BuildExtensionConfigure
    \/ BuildExtensionCompile
    \/ NewRun

Spec == Init /\ [][Next]_vars

\* ------------------------------------------------------- runs that go on
\* a step of the current run: the interpreter goes on to the next statement
\* and every subprocess call returns
RunStep ==
    \/ VersionQuery
    \/ VersionCheck
    \/ InstallDependenciesPresent
    \/ InstallDependenciesMkdir
    \/ InstallDependenciesClone
    \/ InstallDependenciesSubmodule
    \/ BuildExtensionPrepare
    \/ BuildExtensionConfigure
    \/ BuildExtensionCompile

\* the runs of Spec on a Windows host and on a Linux host (macOS differs
\* from Linux in the arguments only), as a release build with CXXFLAGS and
\* ARCHFLAGS unset (the control flow reads neither the mode nor the
\* environment), the dependency directory either missing or complete
InitLive ==
    /\ host \in {h \in Hosts : h.is64 /\ h.arch = {} /\ h.platform # "Darwin"}
    /\ debug = FALSE
    /\ \E n \in 0..MaxTargets : extensions = [i \in 1..n |-> CMakeExtension(i)]
    /\ environ = EmptyEnv
    /\ fs \in [pybind11 : {"absent", "populated"}, build_temp : BOOLEAN]
    /\ run = 1
    /\ pc = "version"
    /\ idx = 1
    /\ out = NoOutput
    /\ env = EmptyEnv
    /\ failure = "none"
    /\ log = <<>>
    /\ fetchCount = 0

\* run is single-threaded and every call blocks until the child exits, so
\* a run that can take a step takes it
LiveSpec == InitLive /\ [][Next]_vars /\ WF_vars(RunStep)

\* ------------------------------------------- the argument computation alone
\* ARCHFLAGS values for the hosts of SpecArgs: those of Spec, a marker with
\* no word after it, and a pair after another flag
ArgArchFlagsValues ==
    ArchFlagsValues \cup {<<"-arch">>, <<"-O2", "-arch", "arm64">>}

\* every platform with every ARCHFLAGS; the pointer width varies on Windows
ArgHosts ==
    {h \in [platform : {"Windows", "Linux", "Darwin"}, is64 : BOOLEAN,
            arch : {{}} \cup {{v} : v \in ArgArchFlagsValues}] :
        h.platform = "Windows" \/ h.is64}

\* the runs of Spec on every host of ArgHosts, with CXXFLAGS unset and the
\* dependency directory either missing or complete
InitArgs ==
    /\ host \in ArgHosts
    /\ debug \in BOOLEAN
    /\ \E n \in 0..MaxTargets : extensions = [i \in 1..n |-> CMakeExtension(i)]
    /\ environ = [k \in {"ARCHFLAGS" : v \in host.arch}
                     |-> CHOOSE v \in host.arch : TRUE]
    /\ fs \in [pybind11 : {"absent", "populated"}, build_temp : BOOLEAN]
    /\ run = 1
    /\ pc = "version"
    /\ idx = 1
    /\ out = NoOutput
    /\ env = EmptyEnv
    /\ failure = "none"
    /\ log = <<>>
    /\ fetchCount = 0

SpecArgs == InitArgs /\ [][Next]_vars


\* ================================================================== claims
Entries == DOMAIN log
IsCall(i, op) == log[i].op = op
Succeeded(i) == log[i].status = "ok"
RunOver == pc \in {"done", "failed"}

\* C1: a compile (cmake --build) call for an extension is made only after a
\* configure call for the same extension was made earlier in the same run
\* and exited with status zero.
C1_CompileOnlyAfterConfigureSucceeded ==
    \A i \in Entries :
        IsCall(i, "build") =>
            \E j \in 1..(i - 1) :
                /\ IsCall(j, "configure")
                /\ log[j].ext = log[i].ext
                /\ Succeeded(j)

\* a run with two extensions in which the second one is being compiled
C1_Witness ==
    /\ Len(extensions) >= 2
    /\ \E i \in Entries : IsCall(i, "build") /\ log[i].ext = 2

\* C2: the phases of a run are ordered: the version query has succeeded
\* before the bootstrap starts; before any configure call the bootstrap is
\* over, either as a no-op on a directory that is there or with the clone
\* and the submodule call both made, in that order, and both exited zero;
\* and the compile call of an extension follows its configure call.
VersionQueryPassed == log # <<>> /\ IsCall(1, "version") /\ Succeeded(1)

C2_PhaseOrder ==
    /\ pc \in {"deps", "clone", "submodule", "ext", "configure", "compile", "done"}
          => VersionQueryPassed
    /\ \A i \in Entries :
          /\ log[i].op \in {"clone", "submodule", "configure", "build"}
                => VersionQueryPassed /\ i > 1
          /\ IsCall(i, "configure") =>
                /\ DependencyPresent(fs)
                /\ \/ \A j \in Entries : log[j].op \notin {"clone", "submodule"}
                   \/ \E j, k \in 1..(i - 1) :
                         /\ j < k
                         /\ IsCall(j, "clone") /\ Succeeded(j)
                         /\ IsCall(k, "submodule") /\ Succeeded(k)
          /\ IsCall(i, "build") =>
                \E j \in 1..(i - 1) : IsCall(j, "configure") /\ log[j].ext = log[i].ext

\* a configure call made in a run that fetched the dependency
C2_Witness ==
    /\ \E i \in Entries : IsCall(i, "configure")
    /\ \E i \in Entries : IsCall(i, "clone")

\* C3: when the version query cannot be started (OSError), the run fails
\* with ToolchainMissing, and no configure and no compile call is made for
\* any extension in that run.
C3_ToolchainMissing ==
    (\E i \in Entries : IsCall(i, "version") /\ log[i].status = "oserror") =>
        /\ pc = "failed"
        /\ failure = "ToolchainMissing"
        /\ \A i \in Entries : log[i].op \notin {"configure", "build"}
        /\ Len(log) = 1

\* the tool is missing in a run that was handed extensions
C3_Witness ==
    /\ failure = "ToolchainMissing"
    /\ Len(extensions) >= 1


\* C4: on Windows a reported version below 3.1.0 ends the run with
\* ToolchainTooOld before the bootstrap and before any configure or compile
\* call, and a version at or above 3.1.0 passes the check; on another
\* platform the reported version never makes the check fail.
PadZeros(r, n) == [i \in 1..n |-> IF i <= Len(r) THEN r[i] ELSE 0]
\* a < b as dotted version numbers, missing components read as 0
NumericallyBelow(a, b) ==
    LET n == IF Len(a) > Len(b) THEN Len(a) ELSE Len(b)
        pa == PadZeros(a, n)
        pb == PadZeros(b, n)
    IN  \E k \in 1..n : pa[k] < pb[k] /\ \A m \in 1..(k - 1) : pa[m] = pb[m]

C4_VersionCheckStep ==
    pc = "version_check" =>
        LET below == NumericallyBelow(out.release, <<3, 1, 0>>)
        IN  /\ (host.platform = "Windows" /\ out.matched /\ below) =>
                  /\ pc' = "failed" /\ failure' = "ToolchainTooOld"
                  /\ log' = log /\ fs' = fs /\ fetchCount' = fetchCount
            /\ (host.platform = "Windows" /\ out.matched /\ ~below) =>
                  pc' = "deps" /\ failure' = "none"
            /\ host.platform # "Windows" =>
                  pc' = "deps" /\ failure' = "none"

C4_WindowsMinimumVersion ==
    /\ [][C4_VersionCheckStep]_vars
    /\ [](failure = "ToolchainTooOld" =>
             /\ host.platform = "Windows"
             /\ pc = "failed"
             /\ Len(log) = 1 /\ IsCall(1, "version"))

\* a Windows run that was refused for its version, with extensions to build
C4_Witness ==
    /\ host.platform = "Windows"
    /\ failure = "ToolchainTooOld"
    /\ Len(extensions) >= 1

\* C5 as stated: a configure call that exits nonzero fails its extension
\* only, and the extensions after it are still configured and compiled.
C5_OtherTargetsUnaffected ==
    RunOver =>
        \A i \in Entries :
            (IsCall(i, "configure") /\ log[i].status = "nonzero") =>
                \A e \in (log[i].ext + 1)..Len(extensions) :
                    /\ \E j \in Entries : IsCall(j, "configure") /\ log[j].ext = e
                    /\ \E j \in Entries : IsCall(j, "build") /\ log[j].ext = e

\* C5 amended: a configure call that exits nonzero ends the whole run with
\* ConfigureFailed: it is the last call of the run, its extension is not
\* compiled and no later extension is configured or compiled.
C5_ConfigureFailureAbortsRun ==
    \A i \in Entries :
        (IsCall(i, "configure") /\ log[i].status = "nonzero") =>
            /\ pc = "failed"
            /\ failure = "ConfigureFailed"
            /\ i = Len(log)
            /\ \A j \in Entries :
                  log[j].op \in {"configure", "build"} /\ j # i => log[j].ext < log[i].ext

\* the configure call of the first of two extensions exited nonzero
C5_Witness ==
    /\ Len(extensions) >= 2
    /\ \E i \in Entries :
          IsCall(i, "configure") /\ log[i].ext = 1 /\ log[i].status = "nonzero"

\* C6: a failure ends the run with no retry: a call that failed is the last
\* call of its run, a run that raised makes no further step but to be
\* started anew, and no call is made twice for the same extension in a run.
C6_FailedIsFinal ==
    pc = "failed" => run' = run + 1 /\ log' = <<>>

C6_FailureAbortsRun ==
    /\ [][C6_FailedIsFinal]_vars
    /\ [](/\ failure # "none" <=> pc = "failed"
          /\ \A i \in Entries :
                ~Succeeded(i) => i = Len(log) /\ pc = "failed"
          /\ \A i, j \in Entries :
                (log[i].op = log[j].op /\ log[i].ext = log[j].ext) => i = j)

\* the compile call of an extension failed and another extension was waiting
C6_Witness ==
    /\ failure = "CompileFailed"
    /\ idx < Len(extensions)


\* the ambient CXXFLAGS followed by one VERSION_INFO define
AmbientPlusDefine(e) ==
    /\ DOMAIN e = DOMAIN environ \cup {"CXXFLAGS"}
    /\ \A k \in DOMAIN e \ {"CXXFLAGS"} : e[k] = environ[k]
    /\ LET ambient == IF "CXXFLAGS" \in DOMAIN environ THEN environ["CXXFLAGS"]
                      ELSE <<>>
       IN  /\ Len(e["CXXFLAGS"]) = Len(ambient) + 1
           /\ \A k \in 1..Len(ambient) : e["CXXFLAGS"][k] = ambient[k]
           /\ e["CXXFLAGS"][Len(ambient) + 1] = VersionInfoDefine

\* C7 as stated: the configure call and the compile call of an extension
\* receive the same prepared environment.
C7_SameEnvironmentForBothCalls ==
    \A i, j \in Entries :
        (IsCall(i, "configure") /\ IsCall(j, "build") /\ log[i].ext = log[j].ext) =>
            /\ log[j].env = log[i].env
            /\ AmbientPlusDefine(log[j].env)

\* C7 amended: the prepared environment (the ambient one with the
\* VERSION_INFO define appended to CXXFLAGS) is passed to the configure call
\* only; the compile call is given no environment and runs in the ambient
\* one, whose CXXFLAGS has no such define.
C7_PreparedEnvironmentForConfigureOnly ==
    \A i \in Entries :
        /\ IsCall(i, "configure") => AmbientPlusDefine(log[i].env)
        /\ IsCall(i, "build") => log[i].env = environ /\ ~AmbientPlusDefine(log[i].env)

\* both calls of an extension have been made
C7_Witness ==
    \E i, j \in Entries :
        IsCall(i, "configure") /\ IsCall(j, "build") /\ log[i].ext = log[j].ext

\* C8: building an extension leaves os.environ as it is, and the CXXFLAGS
\* of the environment prepared for each extension is the ambient value
\* followed by exactly one VERSION_INFO define: the define of one build does
\* not reach the next one.
DefineCount(flags) == Cardinality({k \in 1..Len(flags) : flags[k] = VersionInfoDefine})

C8_EnvironmentNotMutated ==
    /\ [][environ' = environ]_vars
    /\ [](/\ pc \in {"configure", "compile"} =>
                AmbientPlusDefine(env) /\ DefineCount(env["CXXFLAGS"]) = 1
          /\ DefineCount(Get(environ, "CXXFLAGS", <<>>)) = 0
          /\ \A i \in Entries :
                /\ IsCall(i, "configure") =>
                      /\ AmbientPlusDefine(log[i].env)
                      /\ DefineCount(log[i].env["CXXFLAGS"]) = 1
                /\ ~IsCall(i, "configure") => log[i].env = environ)

\* the second of two extensions is configured, with CXXFLAGS set on the host
C8_Witness ==
    /\ "CXXFLAGS" \in DOMAIN environ
    /\ environ["CXXFLAGS"] # <<>>
    /\ \E i \in Entries : IsCall(i, "configure") /\ log[i].ext = 2

\* C9: no two extensions of a run use the same directory as the working
\* directory of their configure and compile calls.
C9_BuildTempExclusivePerTarget ==
    \A i, j \in Entries :
        (/\ log[i].op \in {"configure", "build"}
         /\ log[j].op \in {"configure", "build"}
         /\ log[i].ext # log[j].ext) => log[i].cwd # log[j].cwd

\* C10: over all the runs on a working tree git clone is called at most
\* once, and a call of install_dependencies that finds the directory calls
\* no external tool and leaves the filesystem as it is.
C10_NoOpStep ==
    (pc = "deps" /\ fs.pybind11 # "absent") =>
        /\ fs' = fs
        /\ log' = log
        /\ fetchCount' = fetchCount
        /\ pc' \in {"ext", "done"}

C10_EnsureDependencyIdempotent ==
    /\ [](fetchCount <= 1)
    /\ [][C10_NoOpStep]_vars

\* a later run found the directory that an earlier run had cloned into
C10_Witness ==
    /\ run >= 2
    /\ fetchCount = 1
    /\ pc \in {"ext", "done"}
    /\ \A i \in Entries : ~IsCall(i, "clone")


\* ------------------------------------------------ claims on the arguments
\* the name of the configuration mode the packaging system asked for
ModeName == IF debug THEN "Debug" ELSE "Release"
\* the output directory of the i-th extension: the directory of its module
\* file under build_lib, then pyflagser/modules
OutputDirectory(t) ==
    IF t = 1 THEN <<"build_lib", "pyflagser", "modules">>
    ELSE <<"build_lib", "pyflagser", "pyflagser", "modules">>
\* the arguments of a configure call after the source directory
ConfigureArgs(i) == Tail(log[i].args)
\* the arguments of a compile call after the build directory "."
CompileArgs(i) == Tail(log[i].args)

\* C11: on a host that is neither Windows nor macOS, whatever debugFlag and
\* ARCHFLAGS are, the configure arguments are exactly the library-output
\* directive, the interpreter directive and one CMAKE_BUILD_TYPE directive,
\* in this order.
C11_LinuxConfigureArgs ==
    \A i \in Entries :
        (IsCall(i, "configure") /\ host.platform = "Linux") =>
            ConfigureArgs(i) =
                << <<"-DCMAKE_LIBRARY_OUTPUT_DIRECTORY=">> \o OutputDirectory(log[i].ext),
                   <<"-DPYTHON_EXECUTABLE=", "sys.executable">>,
                   <<"-DCMAKE_BUILD_TYPE=", ModeName>> >>

\* a debug configure call on Linux with an ARCHFLAGS that names two
\* architectures
C11_Witness ==
    /\ host.platform = "Linux"
    /\ debug
    /\ Get(environ, "ARCHFLAGS", <<>>) = <<"-arch", "x86_64", "-arch", "arm64">>
    /\ \E i \in Entries : IsCall(i, "configure")


\* C12 as stated: the arguments of the compile call are "--config" and the
\* mode name, followed by a trailing sequence that is exactly "/m" on
\* Windows and exactly "-j2" elsewhere.
C12_CompileArgsWithoutSeparator ==
    \A i \in Entries :
        IsCall(i, "build") =>
            CompileArgs(i) =
                << <<"--config">>, <<ModeName>> >>
                    \o (IF host.platform = "Windows" THEN << <<"/m">> >>
                        ELSE << <<"-j2">> >>)

\* C12 amended: the arguments of the compile call are "--config" and the
\* mode name, then the separator "--", then one flag for the native build
\* tool: "/m" on Windows and "-j2" elsewhere.
C12_CompileArgs ==
    \A i \in Entries :
        IsCall(i, "build") =>
            /\ Len(CompileArgs(i)) = 4
            /\ CompileArgs(i)[1] = <<"--config">>
            /\ CompileArgs(i)[2] = <<ModeName>>
            /\ CompileArgs(i)[3] = <<"--">>
            /\ CompileArgs(i)[4] =
                  (IF host.platform = "Windows" THEN <<"/m">> ELSE <<"-j2">>)

\* a compile call on Windows
C12_Witness ==
    /\ host.platform = "Windows"
    /\ \E i \in Entries : IsCall(i, "build")


\* C13: on Windows the configure arguments hold an output-directory
\* directive whose name is suffixed with the uppercased name of the mode of
\* that build (_DEBUG or _RELEASE); elsewhere no output-directory directive
\* has a mode suffix.
IsSuffixedOutputDirective(a) ==
    Len(a) >= 2 /\ a[1] = "-DCMAKE_LIBRARY_OUTPUT_DIRECTORY_"

SuffixedOutputDirectives(i) ==
    {k \in 1..Len(ConfigureArgs(i)) : IsSuffixedOutputDirective(ConfigureArgs(i)[k])}

C13_ModeSuffixOnWindowsOnly ==
    \A i \in Entries :
        IsCall(i, "configure") =>
            IF host.platform = "Windows"
            THEN /\ Cardinality(SuffixedOutputDirectives(i)) = 1
                 /\ \A k \in SuffixedOutputDirectives(i) :
                       ConfigureArgs(i)[k] =
                           <<"-DCMAKE_LIBRARY_OUTPUT_DIRECTORY_",
                             IF debug THEN "DEBUG" ELSE "RELEASE", "=">>
                               \o OutputDirectory(log[i].ext)
            ELSE SuffixedOutputDirectives(i) = {}

\* a debug configure call on Windows
C13_Witness ==
    /\ host.platform = "Windows"
    /\ debug
    /\ \E i \in Entries : IsCall(i, "configure")

\* C14: on macOS the configure arguments hold an architecture directive
\* exactly when ARCHFLAGS has a word after an "-arch" marker, and its value
\* is those words in their order joined with ";"; with ARCHFLAGS unset or
\* empty, and on every other platform, there is no architecture directive.
ArchFlags == Get(environ, "ARCHFLAGS", <<>>)
\* the positions of the words that follow an "-arch" marker
ArchPositions == {k \in 2..Len(ArchFlags) : ArchFlags[k - 1] = "-arch"}
NthArchPosition(n) ==
    CHOOSE k \in ArchPositions : Cardinality({j \in ArchPositions : j < k}) = n - 1
IsArchDirective(a) == a # <<>> /\ a[1] = "-DCMAKE_OSX_ARCHITECTURES="
ArchDirectives(i) ==
    {k \in 1..Len(ConfigureArgs(i)) : IsArchDirective(ConfigureArgs(i)[k])}

C14_ArchitectureDirective ==
    \A i \in Entries :
        IsCall(i, "configure") =>
            IF host.platform = "Darwin" /\ ArchPositions # {}
            THEN /\ Cardinality(ArchDirectives(i)) = 1
                 /\ \A k \in ArchDirectives(i) :
                       LET value == Tail(ConfigureArgs(i)[k])
                           n == Cardinality(ArchPositions)
                       IN  /\ Len(value) = 2 * n - 1
                           /\ \A m \in 1..n : value[2 * m - 1] = ArchFlags[NthArchPosition(m)]
                           /\ \A m \in 1..(n - 1) : value[2 * m] = ";"
                 /\ ArchFlags = <<"-arch", "x86_64", "-arch", "arm64">> =>
                       \A k \in ArchDirectives(i) :
                           Tail(ConfigureArgs(i)[k]) = <<"x86_64", ";", "arm64">>
            ELSE ArchDirectives(i) = {}

\* a configure call on macOS with ARCHFLAGS naming two architectures
C14_Witness ==
    /\ host.platform = "Darwin"
    /\ ArchFlags = <<"-arch", "x86_64", "-arch", "arm64">>
    /\ \E i \in Entries : IsCall(i, "configure")

\* C15: the mode is Debug exactly when debugFlag is set and Release
\* otherwise, and the configure call (in its build-type directive or in the
\* suffix of its output-directory directive) and the compile call (after
\* --config) of an extension name the same mode.
C15_SameModeInBothCalls ==
    \A i \in Entries :
        /\ IsCall(i, "configure") =>
              IF host.platform = "Windows"
              THEN /\ \E k \in 1..Len(ConfigureArgs(i)) :
                         /\ IsSuffixedOutputDirective(ConfigureArgs(i)[k])
                         /\ ConfigureArgs(i)[k][2] = (IF debug THEN "DEBUG" ELSE "RELEASE")
                   /\ \A k \in 1..Len(ConfigureArgs(i)) :
                         ConfigureArgs(i)[k][1] # "-DCMAKE_BUILD_TYPE="
              ELSE /\ \E k \in 1..Len(ConfigureArgs(i)) :
                         ConfigureArgs(i)[k] = <<"-DCMAKE_BUILD_TYPE=", ModeName>>
                   /\ \A k \in 1..Len(ConfigureArgs(i)) :
                         ConfigureArgs(i)[k][1] = "-DCMAKE_BUILD_TYPE="
                             => ConfigureArgs(i)[k] = <<"-DCMAKE_BUILD_TYPE=", ModeName>>
        /\ IsCall(i, "build") =>
              /\ CompileArgs(i)[1] = <<"--config">>
              /\ CompileArgs(i)[2] = <<ModeName>>
              /\ \A k \in 1..Len(CompileArgs(i)) :
                    CompileArgs(i)[k] \notin {<<"Debug">>, <<"Release">>} \ {<<ModeName>>}

\* both calls of a debug build have been made
C15_Witness ==
    /\ debug
    /\ \E i, j \in Entries :
          IsCall(i, "configure") /\ IsCall(j, "build") /\ log[i].ext = log[j].ext


\* ------------------------------------------------ the states of a target
HasSucceeded(op, t) ==
    \E i \in Entries : IsCall(i, op) /\ log[i].ext = t /\ Succeeded(i)

\* the state of the t-th extension in the current run.  The compile call
\* writes the module into the output directory the configure call was
\* given, so an extension whose compile call returned 0 is built and placed.
TargetState(t) ==
    IF HasSucceeded("build", t) THEN "Placed"
    ELSE IF pc = "failed" THEN "Failed"
    ELSE IF HasSucceeded("configure", t) THEN "Configured"
    ELSE IF pc \in {"ext", "configure", "compile", "done"} THEN "DependencyReady"
    ELSE IF pc \in {"deps", "clone", "submodule"} THEN "ToolchainVerified"
    ELSE "Unchecked"

Targets == 1..Len(extensions)

\* C16 as stated: within a run a target stays where it is, moves to the next
\* of Unchecked, ToolchainVerified, DependencyReady, Configured, Built,
\* Placed, or moves to Failed from any state but Placed; Failed is left by
\* no step.
SixStates ==
    <<"Unchecked", "ToolchainVerified", "DependencyReady", "Configured",
      "Built", "Placed">>

SixStateEdge(a, b) ==
    \/ a = b
    \/ \E k \in 1..(Len(SixStates) - 1) : a = SixStates[k] /\ b = SixStates[k + 1]
    \/ a \notin {"Placed", "Failed"} /\ b = "Failed"

C16_SixStateMachine ==
    [][run' = run => \A t \in Targets : SixStateEdge(TargetState(t), TargetState(t)')]_vars

\* C16 amended: within a run a target stays where it is, moves to the next
\* of Unchecked, ToolchainVerified, DependencyReady, Configured, Placed (a
\* compile call that exits 0 takes it from Configured to Placed in one step;
\* there is no state Built between them), or moves to Failed from any of
\* the first four; Failed is left by no step; a run that is over has every
\* target Placed, or has failed with every target Placed or Failed; and when
\* every call returns, every run comes to its end.
FiveStates ==
    <<"Unchecked", "ToolchainVerified", "DependencyReady", "Configured", "Placed">>

FiveStateEdge(a, b) ==
    \/ a = b
    \/ \E k \in 1..(Len(FiveStates) - 1) : a = FiveStates[k] /\ b = FiveStates[k + 1]
    \/ a \notin {"Placed", "Failed"} /\ b = "Failed"

C16_TargetStateMachine ==
    /\ [][run' = run => \A t \in Targets : FiveStateEdge(TargetState(t), TargetState(t)')]_vars
    /\ [](pc = "done" => \A t \in Targets : TargetState(t) = "Placed")
    /\ [](pc = "failed" => \A t \in Targets : TargetState(t) \in {"Placed", "Failed"})
    /\ ~RunOver ~> RunOver

\* a run that failed in the compile call of its second extension after it
\* had built the first one
C16_Witness ==
    /\ Len(extensions) >= 2
    /\ failure = "CompileFailed"
    /\ TargetState(1) = "Placed"
    /\ TargetState(2) = "Failed"


\* C17: the output directory of an extension is the directory of the path
\* the packaging system gives for its module file, extended with
\* pyflagser/modules; it depends on the extension alone, computing it
\* changes neither the environment nor the dependency directory, and the
\* library-output directive of every configure call carries exactly it.
C17_PrepareStep ==
    pc = "ext" =>
        /\ environ' = environ
        /\ fs'.pybind11 = fs.pybind11
        /\ fetchCount' = fetchCount
        /\ log' = log

C17_OutputDirectory ==
    /\ [][C17_PrepareStep]_vars
    /\ [](\A i \in Entries :
             IsCall(i, "configure") =>
                /\ ConfigureArgs(i)[1] =
                      <<"-DCMAKE_LIBRARY_OUTPUT_DIRECTORY=">> \o OutputDirectory(log[i].ext)
                /\ \A k \in 1..Len(ConfigureArgs(i)) :
                      ConfigureArgs(i)[k][1] = "-DCMAKE_LIBRARY_OUTPUT_DIRECTORY="
                          => k = 1)

\* the configure call of an extension whose name has a package part
C17_Witness ==
    \E i \in Entries : IsCall(i, "configure") /\ log[i].ext = 2

\* C18: a bootstrap that fails in its clone or submodule call leaves the
\* dependency directory in place; nothing removes or completes it later; and
\* a run that finds a directory holding no complete clone makes no git call
\* and goes on to its extensions.
C18_FailedBootstrapStep ==
    /\ (pc \in {"clone", "submodule"} /\ pc' = "failed") =>
          /\ failure' = "DependencyFetchFailed"
          /\ fs'.pybind11 # "absent"
    /\ (pc # "clone" /\ fs.pybind11 # "absent") => fs'.pybind11 = fs.pybind11
    /\ (pc = "deps" /\ fs.pybind11 \in {"empty", "partial"}) =>
          /\ pc' = (IF extensions = <<>> THEN "done" ELSE "ext")
          /\ failure' = "none"
          /\ log' = log
          /\ fetchCount' = fetchCount

C18_NoCleanupAfterFailedFetch ==
    /\ [][C18_FailedBootstrapStep]_vars
    /\ []((\E i \in Entries : IsCall(i, "configure")) /\ fs.pybind11 \in {"empty", "partial"}
             => \A i \in Entries : log[i].op \notin {"clone", "submodule"})

\* a second run configures an extension on the directory that the failed
\* clone of the first run left incomplete
C18_Witness ==
    /\ run >= 2
    /\ fetchCount = 1
    /\ fs.pybind11 \in {"empty", "partial"}
    /\ \E i \in Entries : IsCall(i, "configure")

\* C19: when a configure call is made the build-temporary directory is
\* there; it is made when it is missing and left as it is when it is there;
\* and no step removes it, whatever the configure and compile calls return.
C19_BuildTempStep ==
    /\ fs.build_temp => fs'.build_temp
    /\ (pc = "ext" /\ fs.build_temp) => fs' = fs /\ pc' = "configure"
    /\ (pc = "ext" /\ ~fs.build_temp /\ pc' = "configure") => fs'.build_temp

C19_BuildTempExists ==
    /\ [][C19_BuildTempStep]_vars
    /\ [](/\ pc \in {"configure", "compile"} => fs.build_temp
          /\ (\E i \in Entries : log[i].op \in {"configure", "build"}) => fs.build_temp)

\* the directory was missing when the run began and the compile call of an
\* extension has failed
C19_Witness ==
    /\ failure = "CompileFailed"
    /\ fs.build_temp
    /\ run = 1

\* C20: a run that fails in the toolchain check leaves the filesystem as it
\* found it: no step up to the check and none after the failure changes the
\* dependency directory or the build-temporary directory, and no git call is
\* made.
ToolchainCheckFailed ==
    \/ failure \in {"ToolchainMissing", "ToolchainTooOld"}
    \/ log # <<>> /\ IsCall(1, "version") /\ log[1].status = "oserror"

C20_ToolchainCheckStep ==
    (pc \in {"version", "version_check"} \/ ToolchainCheckFailed) =>
        /\ fs' = fs
        /\ fetchCount' = fetchCount
        /\ \A i \in DOMAIN log' : log'[i].op \notin {"clone", "submodule"}

C20_FailedToolchainCheckLeavesFilesystem ==
    /\ [][C20_ToolchainCheckStep]_vars
    /\ [](ToolchainCheckFailed =>
             /\ pc = "failed"
             /\ \A i \in Entries : log[i].op = "version")

\* a Windows run refused for its version, on a tree with neither directory
C20_Witness ==
    /\ failure = "ToolchainTooOld"
    /\ fs.pybind11 = "absent"
    /\ ~fs.build_temp

====
